---- MODULE Spec2Model ----
(***************************************************************************)
(* A model of the dungeon room (ADungeonRoom with its four USegmentedWall  *)
(* components) and of the room database (FDungeonRoomDatabase).            *)
(*                                                                         *)
(* A room is spawned from a blueprint asset.  The blueprint is authored    *)
(* data: the child segments of every wall with their index tags and their  *)
(* static meshes, the door and wall mesh palettes and the declared         *)
(* footprint m_Width / m_Length.  The code checks that the palettes are    *)
(* not empty and, when the room is spawned in a game world, that every     *)
(* child of a wall is a static mesh with a first tag that is numeric; the  *)
(* array takes the index the tag names.                                    *)
(*                                                                         *)
(* checkf is fatal: a failed check ends the run of the room (pc = halted)  *)
(* and the failed check is recorded in call.result.                        *)
(***************************************************************************)
EXTENDS Integers, Sequences, FiniteSets, TLC

\* ------------------------------------------------------------------ bounds
\* Most child segments a wall of an enumerated blueprint has, and the largest
\* declared m_Width / m_Length.
MaxSegs == 2
\* Most calls made on one room in one behaviour.
MaxCalls == 3
\* Most assets the asset search returns.
MaxAssets == 2
\* Largest width and length of an enumerated asset or query.
MaxTiles == 1
\* Most door locations an FSpawnInfo lists.
MaxDoors == 2

\* ------------------------------------------------------------------ values
\* EDirection
Directions == {"North", "South", "East", "West"}
\* UStaticMesh assets a blueprint can refer to
Meshes == {"MeshA", "MeshB"}
\* nullptr in a slot of m_SegmentMeshes
NullSegment == 0

\* FWallLocation values the callers pass: one index below and one above
\* every wall of the enumerated blueprints.
Locations == [WallDirection : Directions, SegmentIndex : (0 - 1)..MaxSegs]

\* The FSpawnInfo of a room that was not made by ADungeonRoom::Spawn.
NoSpawnInfo == [DoorLocations |-> << >>]

NoCall == [op |-> "none", loc |-> [WallDirection |-> "North", SegmentIndex |-> 0],
           result |-> "none"]

VARIABLES
    pc,               \* "blueprint" (not yet spawned), "ready", "halted"
    IsGameWorld,      \* UWorld::IsGameWorld() of the world the room is spawned in
    children,         \* per wall: GetAttachChildren(), each child
                      \* [class, ComponentTags, mesh]
    m_SegmentMeshes,  \* per wall: TArray of pointers to children (position in
                      \* children[d]) or NullSegment
    m_DoorMeshes,     \* door palette
    m_WallMeshes,     \* wall palette
    m_Width,          \* declared footprint
    m_Length,
    call,             \* the last call made on the room and its result
    nCalls,           \* number of calls made on the room
    SpawnInfo,        \* FSpawnInfo of ADungeonRoom::Spawn: its DoorLocations
    spawnpc,          \* "none" (no Spawn), "spawning", "returned"
    dbpc,             \* "idle", "constructing", "building", "built", "halted"
    RoomAssets,       \* the assets FindDerivedBlueprintAssetsInPath returned
    nAdded,           \* number of assets Algo::ForEach has passed to
                      \* AddAssetToDatabase
    m_PathsByRoomSpecs,  \* TMap: room specs -> array of asset paths
    m_MaxWidthByTheme,   \* TMap: theme -> widest room of the theme
    m_MaxLengthByTheme,  \* TMap: theme -> longest room of the theme
    query,            \* the query made on the database and its result
    reads             \* per reader of the built database: its query and result

roomVars == <<pc, IsGameWorld, children, m_SegmentMeshes, m_DoorMeshes, m_WallMeshes,
              m_Width, m_Length, call, nCalls, SpawnInfo, spawnpc>>

dbVars == <<dbpc, RoomAssets, nAdded, m_PathsByRoomSpecs, m_MaxWidthByTheme,
            m_MaxLengthByTheme, query, reads>>

vars == <<pc, IsGameWorld, children, m_SegmentMeshes, m_DoorMeshes, m_WallMeshes,
          m_Width, m_Length, call, nCalls, SpawnInfo, spawnpc,
          dbpc, RoomAssets, nAdded, m_PathsByRoomSpecs, m_MaxWidthByTheme,
          m_MaxLengthByTheme, query, reads>>

\* ------------------------------------------------------------------ USegmentedWall

\* The class of a child that Cast<UStaticMeshComponent> accepts, and of one
\* it does not.
StaticMeshClass == "UStaticMeshComponent"
SceneClass == "USceneComponent"
\* The mesh of a child that is no static mesh component: it has none.
NoMesh == "none"

\* A tag is the FString its FName gives: the sequence of its characters.
\* The decimal digits, the digit of value d at position d + 1.
DigitChars == <<"0", "1", "2", "3", "4", "5", "6", "7", "8", "9">>

\* The value of every digit.
DigitValues ==
    [Char \in { DigitChars[d] : d \in 1..Len(DigitChars) } |->
        (CHOOSE d \in 1..Len(DigitChars) : DigitChars[d] = Char) - 1]

\* FChar::IsDigit
IsDigit(Char) == Char \in DOMAIN DigitValues

\* The value of a digit.
DigitValue(Char) == DigitValues[Char]

\* The tag an author writes for the index n: its decimal form.
RECURSIVE DecimalTag(_)
DecimalTag(n) ==
    IF n < 0 THEN <<"-">> \o DecimalTag(0 - n)
    ELSE IF n < Len(DigitChars) THEN <<DigitChars[n + 1]>>
    ELSE DecimalTag(n \div Len(DigitChars)) \o <<DigitChars[(n % Len(DigitChars)) + 1]>>

\* The characters of a tag after its sign, if it has one.
AfterSign(TagValue) ==
    IF Len(TagValue) > 0 /\ TagValue[1] \in {"-", "+"} THEN Tail(TagValue)
                                                       ELSE TagValue

\* FString::IsNumeric on a tag: the tag is not empty and is an optional sign
\* followed by digits and at most one point, in any number and any place.
IsNumeric(TagValue) ==
    LET chars == AfterSign(TagValue)
    IN  /\ Len(TagValue) > 0
        /\ \A i \in 1..Len(chars) : chars[i] = "." \/ IsDigit(chars[i])
        /\ \A i, j \in 1..Len(chars) :
              (chars[i] = "." /\ chars[j] = ".") => i = j

\* The integer of the digits of chars from position k up to the first
\* character that is no digit, read after the digits of value acc.
RECURSIVE LeadingDigits(_, _, _)
LeadingDigits(chars, k, acc) ==
    IF k > Len(chars) \/ ~IsDigit(chars[k]) THEN acc
    ELSE LeadingDigits(chars, k + 1, acc * Len(DigitChars) + DigitValue(chars[k]))

\* FCString::Atoi on a tag that passed IsNumeric: the sign and the digits up
\* to the point or the end; 0 when there is no digit there.
Atoi(TagValue) ==
    IF Len(TagValue) > 0 /\ TagValue[1] = "-"
    THEN 0 - LeadingDigits(AfterSign(TagValue), 1, 0)
    ELSE LeadingDigits(AfterSign(TagValue), 1, 0)

\* The two checks of USegmentedWall::GetIndexOfSegment: the check that fails
\* on Segment, or "none".
GetIndexOfSegmentFailure(Segment) ==
    IF ~(Len(Segment.ComponentTags) > 0) THEN "MissingIndexTag"
    ELSE IF ~IsNumeric(Segment.ComponentTags[1]) THEN "InvalidIndexTag"
    ELSE "none"

\* USegmentedWall::GetIndexOfSegment (its checks passed): the integer read
\* from the first tag of the child.
GetIndexOfSegment(Segment) == Atoi(Segment.ComponentTags[1])

\* TArray::IsValidIndex on an array of Num elements.
IsValidIndex(Num, Index) == Index >= 0 /\ Index < Num

\* The loop of USegmentedWall::InitializeSegmentMeshes from child k on.
\* failure is the check that stopped the loop, or "none"; arr is the array as
\* the loop left it; inBounds is FALSE when a tag read was no index of the
\* array.  The assignment m_SegmentMeshes[SegmentIndex] is then out of
\* bounds: with RangeChecks the range check of the array stops the loop,
\* without it the write takes no slot of the array and the loop goes on.
RECURSIVE StoreSegments(_, _, _, _)
StoreSegments(arr, WallSegments, k, RangeChecks) ==
    IF k > Len(WallSegments)
    THEN [failure |-> "none", inBounds |-> TRUE, arr |-> arr]
    ELSE IF WallSegments[k].class # StaticMeshClass
    THEN [failure |-> "NotStaticMesh", inBounds |-> TRUE, arr |-> arr]
    ELSE IF GetIndexOfSegmentFailure(WallSegments[k]) # "none"
    THEN [failure |-> GetIndexOfSegmentFailure(WallSegments[k]),
          inBounds |-> TRUE, arr |-> arr]
    ELSE LET SegmentIndex == GetIndexOfSegment(WallSegments[k])
         IN  IF ~IsValidIndex(Len(arr), SegmentIndex)
             THEN IF RangeChecks
                  THEN [failure |-> "OutOfBounds", inBounds |-> FALSE, arr |-> arr]
                  ELSE [StoreSegments(arr, WallSegments, k + 1, RangeChecks)
                            EXCEPT !.inBounds = FALSE]
             ELSE StoreSegments([arr EXCEPT ![SegmentIndex + 1] = k],
                                WallSegments, k + 1, RangeChecks)

\* USegmentedWall::InitializeSegmentMeshes: SetNum(number of children), then
\* every child is stored at the index its tag names.
InitializeSegmentMeshes(WallSegments, RangeChecks) ==
    StoreSegments([i \in 1..Len(WallSegments) |-> NullSegment], WallSegments, 1,
                  RangeChecks)

\* USegmentedWall::IsValidSegmentIndex on the wall of direction d.
IsValidSegmentIndex(d, SegmentIndex) ==
    IsValidIndex(Len(m_SegmentMeshes[d]), SegmentIndex)

\* USegmentedWall::GetSegment (its check passed): the pointer in the slot.
GetSegment(d, SegmentIndex) == m_SegmentMeshes[d][SegmentIndex + 1]

\* ------------------------------------------------------------------ ADungeonRoom

\* ADungeonRoom::IsValidWallLocation
IsValidWallLocation(Location) ==
    IsValidSegmentIndex(Location.WallDirection, Location.SegmentIndex)

\* The static mesh of the segment at a valid location whose slot is not null.
MeshAtLocation(Location) ==
    children[Location.WallDirection]
            [GetSegment(Location.WallDirection, Location.SegmentIndex)].mesh

\* ADungeonRoom::HasDoorAtLocation (its check passed): m_DoorMeshes.Contains.
HasDoorAtLocation(Location) == MeshAtLocation(Location) \in m_DoorMeshes

\* SetStaticMesh with the segment index ignored: the first segment of the wall
\* gets the mesh.
SetStaticMesh_FirstSegment(Location, NewMesh) ==
    [children EXCEPT ![Location.WallDirection]
                      [GetSegment(Location.WallDirection, 0)].mesh = NewMesh]

\* SetStaticMesh with the segment not selected: every segment of the wall gets
\* the mesh.
SetStaticMesh_WholeWall(Location, NewMesh) ==
    [children EXCEPT ![Location.WallDirection] =
        [i \in DOMAIN @ |-> [@[i] EXCEPT !.mesh = NewMesh]]]

\* ADungeonRoom::SetStaticMesh: the children after the segment at Location got
\* NewMesh.
SetStaticMesh(Location, NewMesh) ==
    [children EXCEPT ![Location.WallDirection]
                      [GetSegment(Location.WallDirection, Location.SegmentIndex)].mesh
                          = NewMesh]

\* ADungeonRoom::GetRandomMesh: any element of the palette.
GetRandomMesh(Palette) == Palette

\* A failed checkf: the call is recorded with the failed check, nothing else
\* changes, and the run of the room ends.
Fails(op, Location, kind) ==
    /\ call' = [op |-> op, loc |-> Location, result |-> kind]
    /\ pc' = "halted"
    /\ nCalls' = nCalls + 1
    /\ UNCHANGED <<IsGameWorld, children, m_SegmentMeshes, m_DoorMeshes, m_WallMeshes,
                   m_Width, m_Length, SpawnInfo, spawnpc>>

\* The bool a query returns, as recorded in call.result.
BoolResult(b) == IF b THEN "true" ELSE "false"

\* A call that returns: result is "ok" for a void call, else the value returned.
Returns(op, Location, result) ==
    /\ call' = [op |-> op, loc |-> Location, result |-> result]
    /\ nCalls' = nCalls + 1
    /\ UNCHANGED <<pc, IsGameWorld, m_SegmentMeshes, m_DoorMeshes, m_WallMeshes,
                   m_Width, m_Length, SpawnInfo, spawnpc>>

\* SegmentFailure without the room's own check of the location: the check of
\* USegmentedWall::GetSegment is the first to fail.
SegmentFailure_WallCheckOnly(Location) ==
    IF ~IsValidWallLocation(Location) THEN "OutOfRange"
    ELSE IF GetSegment(Location.WallDirection, Location.SegmentIndex) = NullSegment
         THEN "NullSegment"
         ELSE "none"

\* The check of HasDoorAtLocation and the dereference of the segment, shared by
\* the three calls: the failure a call on Location meets there, or "none".
SegmentFailure(Location) ==
    IF ~IsValidWallLocation(Location) THEN "InvalidLocation"
    ELSE IF GetSegment(Location.WallDirection, Location.SegmentIndex) = NullSegment
         THEN "NullSegment"
         ELSE "none"

\* AddDoor without the check that no door is there: adding twice is a no-op.
AddDoor_Unchecked(Location) ==
    /\ pc = "ready"
    /\ IF m_DoorMeshes = {} THEN Fails("AddDoor", Location, "MissingDoorMeshes")
       ELSE IF SegmentFailure(Location) # "none"
            THEN Fails("AddDoor", Location, SegmentFailure(Location))
       ELSE \E NewMesh \in GetRandomMesh(m_DoorMeshes) :
               /\ children' = SetStaticMesh(Location, NewMesh)
               /\ Returns("AddDoor", Location, "ok")

\* ADungeonRoom::AddDoor
AddDoor(Location) ==
    /\ pc = "ready"
    /\ IF m_DoorMeshes = {} THEN Fails("AddDoor", Location, "MissingDoorMeshes")
       ELSE IF SegmentFailure(Location) # "none"
            THEN Fails("AddDoor", Location, SegmentFailure(Location))
       ELSE IF HasDoorAtLocation(Location)
            THEN Fails("AddDoor", Location, "DoorAlreadyPresent")
       ELSE \E NewMesh \in GetRandomMesh(m_DoorMeshes) :
               /\ children' = SetStaticMesh(Location, NewMesh)
               /\ Returns("AddDoor", Location, "ok")

\* ADungeonRoom::RemoveDoor
RemoveDoor(Location) ==
    /\ pc = "ready"
    /\ IF m_WallMeshes = {} THEN Fails("RemoveDoor", Location, "MissingWallMeshes")
       ELSE IF SegmentFailure(Location) # "none"
            THEN Fails("RemoveDoor", Location, SegmentFailure(Location))
       ELSE IF ~HasDoorAtLocation(Location)
            THEN Fails("RemoveDoor", Location, "NoDoorPresent")
       ELSE \E NewMesh \in GetRandomMesh(m_WallMeshes) :
               /\ children' = SetStaticMesh(Location, NewMesh)
               /\ Returns("RemoveDoor", Location, "ok")

\* A call of ADungeonRoom::HasDoorAtLocation
QueryHasDoor(Location) ==
    /\ pc = "ready"
    /\ IF SegmentFailure(Location) # "none"
       THEN Fails("HasDoorAtLocation", Location, SegmentFailure(Location))
       ELSE /\ Returns("HasDoorAtLocation", Location,
                       BoolResult(HasDoorAtLocation(Location)))
            /\ UNCHANGED children

\* A call of ADungeonRoom::IsValidWallLocation
QueryIsValid(Location) ==
    /\ pc = "ready"
    /\ Returns("IsValidWallLocation", Location,
               BoolResult(IsValidWallLocation(Location)))
    /\ UNCHANGED children

\* ------------------------------------------------------------------ blueprints

\* The children of a wall authored with n segments tagged 0..n-1, in attach
\* order, all showing mesh.
WallChildren(n, mesh) ==
    [i \in 1..n |-> [class |-> StaticMeshClass,
                     ComponentTags |-> <<DecimalTag(i - 1)>>, mesh |-> mesh]]

\* The walls of a blueprint authored as the class comment of ADungeonRoom
\* describes: North and South with w segments, East and West with l.
WallsAsDeclared(w, l, mesh) ==
    [d \in Directions |->
        IF d \in {"North", "South"} THEN WallChildren(w, mesh)
                                    ELSE WallChildren(l, mesh)]

Blueprint(w, l, walls, doors, wallMeshes) ==
    [width |-> w, length |-> l, children |-> walls,
     doorMeshes |-> doors, wallMeshes |-> wallMeshes]

\* Blueprints that differ in their palettes only: any two subsets of Meshes,
\* every segment authored with MeshB.
PaletteBlueprints ==
    { Blueprint(w, l, WallsAsDeclared(w, l, "MeshB"), doors, wallMeshes) :
        w \in 1..MaxSegs, l \in 1..MaxSegs,
        doors \in SUBSET Meshes, wallMeshes \in SUBSET Meshes }

\* Blueprints with one segment authored with the door mesh, like the assets
\* TestDetectingDoorAsset and CanRemoveDoorsFromWallOfRoomAsset of the tests.
AuthoredDoorBlueprints ==
    UNION { { Blueprint(w, l,
                [WallsAsDeclared(w, l, "MeshB") EXCEPT ![d][i].mesh = "MeshA"],
                {"MeshA"}, {"MeshB"}) :
              i \in 1..Len(WallsAsDeclared(w, l, "MeshB")[d]) } :
            w \in 1..MaxSegs, l \in 1..MaxSegs, d \in Directions }

\* Blueprints one wall of which has another number of segments than the
\* declared footprint gives it.
SegmentCountBlueprints ==
    { Blueprint(w, l,
        [WallsAsDeclared(w, l, "MeshB") EXCEPT ![d] = WallChildren(n, "MeshB")],
        {"MeshA"}, {"MeshB"}) :
      w \in 1..MaxSegs, l \in 1..MaxSegs, d \in Directions, n \in 1..MaxSegs }

Blueprints == PaletteBlueprints \cup AuthoredDoorBlueprints \cup SegmentCountBlueprints

\* The index tags a child of an enumerated blueprint can carry: every index of
\* the longest wall, one below and one above.
Tags == (0 - 1)..MaxSegs

\* Tags an author can write that are not the decimal form of an index: a
\* word, a sign before the digit, a fraction, a sign alone and a number of two
\* digits.
OtherTags == { <<"x">>, <<"+", "1">>, <<"0", ".", "5">>, <<"-">>, <<"1", "0">> }

\* The children a wall of an enumerated blueprint can have: static meshes
\* tagged with the decimal form of any of Tags or with any of OtherTags, a
\* static mesh without a tag, and a scene component that is no static mesh.
TaggedChildren ==
    { [class |-> StaticMeshClass, ComponentTags |-> <<tag>>, mesh |-> "MeshB"] :
        tag \in { DecimalTag(t) : t \in Tags } \cup OtherTags }
      \cup { [class |-> StaticMeshClass, ComponentTags |-> << >>, mesh |-> "MeshB"],
             [class |-> SceneClass, ComponentTags |-> <<DecimalTag(0)>>,
              mesh |-> NoMesh] }

\* Blueprints of the smallest footprint one wall of which has any children:
\* tags out of order, tags given twice, tags that are no index, no number or
\* missing, children that are no static mesh.
TagBlueprints ==
    { Blueprint(1, 1,
        [WallsAsDeclared(1, 1, "MeshB") EXCEPT ![d] = segments],
        {"MeshA"}, {"MeshB"}) :
      d \in Directions,
      segments \in UNION { [1..n -> TaggedChildren] : n \in 1..MaxSegs } }

\* ------------------------------------------------------------------ spawning

\* The state of a room of blueprint bp before the engine spawned it:
\* ADungeonRoom() created the four walls, m_SegmentMeshes is { }.
RoomOfBlueprint(bp) ==
    /\ pc = "blueprint"
    /\ IsGameWorld \in BOOLEAN
    /\ children = bp.children
    /\ m_SegmentMeshes = [d \in Directions |-> << >>]
    /\ m_DoorMeshes = bp.doorMeshes
    /\ m_WallMeshes = bp.wallMeshes
    /\ m_Width = bp.width
    /\ m_Length = bp.length
    /\ call = NoCall
    /\ nCalls = 0

\* The room was not made by ADungeonRoom::Spawn.
NoSpawn ==
    /\ SpawnInfo = NoSpawnInfo
    /\ spawnpc = "none"

\* The walls in the order ADungeonRoom() creates them, which is the order
\* their InitializeComponent runs in.
WallOrder == <<"North", "South", "West", "East">>

\* InitializeSegmentMeshes of the walls from wall i of WallOrder on, as
\* USegmentedWall::InitializeComponent calls it in a game world: the first
\* check that fails ends the run with the arrays as they are then.
RECURSIVE InitializeComponents(_, _, _)
InitializeComponents(arrays, i, RangeChecks) ==
    IF i > Len(WallOrder)
    THEN [failure |-> "none", inBounds |-> TRUE, arrays |-> arrays]
    ELSE LET d == WallOrder[i]
             wall == InitializeSegmentMeshes(children[d], RangeChecks)
             stored == [arrays EXCEPT ![d] = wall.arr]
         IN  IF wall.failure # "none"
             THEN [failure |-> wall.failure, inBounds |-> wall.inBounds,
                   arrays |-> stored]
             ELSE [InitializeComponents(stored, i + 1, RangeChecks)
                       EXCEPT !.inBounds = @ /\ wall.inBounds]

\* World->SpawnActor: ADungeonRoom::PostActorCreated, then
\* USegmentedWall::InitializeComponent of every wall, which fills the array
\* of the wall only in a game world.
SpawnActor ==
    /\ pc = "blueprint"
    /\ UNCHANGED <<IsGameWorld, children, m_DoorMeshes, m_WallMeshes, m_Width,
                   m_Length, nCalls, SpawnInfo, spawnpc>>
    /\ UNCHANGED dbVars
    /\ LET halt(kind, arrays) ==
               /\ pc' = "halted"
               /\ call' = [NoCall EXCEPT !.op = "SpawnActor", !.result = kind]
               /\ m_SegmentMeshes' = arrays
           done(arrays) ==
               /\ pc' = "ready"
               /\ call' = [NoCall EXCEPT !.op = "SpawnActor", !.result = "ok"]
               /\ m_SegmentMeshes' = arrays
       IN  IF m_DoorMeshes = {} THEN halt("MissingDoorMeshes", m_SegmentMeshes)
           ELSE IF m_WallMeshes = {} THEN halt("MissingWallMeshes", m_SegmentMeshes)
           ELSE IF ~IsGameWorld THEN done(m_SegmentMeshes)
           ELSE LET unchecked == InitializeComponents(m_SegmentMeshes, 1, FALSE)
                    checked == InitializeComponents(m_SegmentMeshes, 1, TRUE)
                    outcome(walls) == IF walls.failure # "none"
                                      THEN halt(walls.failure, walls.arrays)
                                      ELSE done(walls.arrays)
                IN  IF unchecked.inBounds THEN outcome(unchecked)
                    ELSE \* an assignment out of bounds: the range check of
                         \* the array stops the run, or the build has no such
                         \* check and the write lands outside the array
                         outcome(checked) \/ outcome(unchecked)

\* ------------------------------------------------------------------ FDungeonRoomDatabase

\* EDungeonTheme
Themes == {"Crypt", "Hall"}
\* FNumberOfTiles values the enumerated assets and queries carry
NumbersOfTiles == 0..MaxTiles
\* FSoftObjectPath of the enumerated assets
AssetPaths == {"a", "b"}

\* FAssetData of a room blueprint: the registry tags of m_Theme, m_Width and
\* m_Length, and the asset's path.
AssetData == [Theme : Themes, Width : NumbersOfTiles, Length : NumbersOfTiles,
              Path : AssetPaths]

\* FDungeonRoomSpecs
RoomSpecsValues ==
    [Theme : Themes, Dimensions : [Width : NumbersOfTiles, Length : NumbersOfTiles]]

\* FDungeonRoomAssetAnalyzer::GetRoomSpecs
GetRoomSpecs(Asset) ==
    [Theme |-> Asset.Theme,
     Dimensions |-> [Width |-> Asset.Width, Length |-> Asset.Length]]

\* FDungeonRoomAssetAnalyzer::GetSoftObjectPath
GetSoftObjectPath(Asset) == Asset.Path

\* Equality of FDungeonRoomSpecs keys: all three fields equal.
SpecsEqual(a, b) ==
    /\ a.Theme = b.Theme
    /\ a.Dimensions.Width = b.Dimensions.Width
    /\ a.Dimensions.Length = b.Dimensions.Length

\* The value a TMap<EDungeonTheme, FNumberOfTiles>::FindOrAdd adds for a new key.
DefaultNumberOfTiles == 0

\* TMap::Contains on m_PathsByRoomSpecs-like maps, keys compared by SpecsEqual.
ContainsSpecs(map, Specs) == \E k \in DOMAIN map : SpecsEqual(k, Specs)

\* The key of map equal to Specs (there is one).
KeyOfSpecs(map, Specs) == CHOOSE k \in DOMAIN map : SpecsEqual(k, Specs)

\* TMap::FindOrAdd: the map with key added at value init unless it is a key.
FindOrAdd(map, key, init) ==
    IF key \in DOMAIN map THEN map
    ELSE [k \in DOMAIN map \cup {key} |-> IF k = key THEN init ELSE map[k]]

\* UpdateAssetPathsMap with Find in the place of FindOrAdd: the path is added
\* only to an entry that is there.
UpdateAssetPathsMap_FindOnly(paths, Asset) ==
    LET PathToAsset == GetSoftObjectPath(Asset)
        RoomSpecs == GetRoomSpecs(Asset)
    IN  IF ContainsSpecs(paths, RoomSpecs)
        THEN [paths EXCEPT ![KeyOfSpecs(paths, RoomSpecs)] = Append(@, PathToAsset)]
        ELSE paths

\* UpdateAssetPathsMap with the path inserted at the front of the array.
UpdateAssetPathsMap_Prepend(paths, Asset) ==
    LET PathToAsset == GetSoftObjectPath(Asset)
        RoomSpecs == GetRoomSpecs(Asset)
        key == IF ContainsSpecs(paths, RoomSpecs) THEN KeyOfSpecs(paths, RoomSpecs)
                                                  ELSE RoomSpecs
        added == FindOrAdd(paths, key, << >>)
    IN  [added EXCEPT ![key] = <<PathToAsset>> \o @]

\* FDungeonRoomDatabase::UpdateAssetPathsMap: the paths map after Asset.
UpdateAssetPathsMap(paths, Asset) ==
    LET PathToAsset == GetSoftObjectPath(Asset)
        RoomSpecs == GetRoomSpecs(Asset)
        key == IF ContainsSpecs(paths, RoomSpecs) THEN KeyOfSpecs(paths, RoomSpecs)
                                                  ELSE RoomSpecs
        added == FindOrAdd(paths, key, << >>)
    IN  [added EXCEPT ![key] = Append(@, PathToAsset)]

\* UpdateMaxWidth with Find in the place of FindOrAdd: a theme gets its entry
\* only when a width above the default arrives.
UpdateMaxWidth_NoAdd(widths, Asset) ==
    LET RoomSpecs == GetRoomSpecs(Asset)
        added == FindOrAdd(widths, RoomSpecs.Theme, DefaultNumberOfTiles)
    IN  IF RoomSpecs.Dimensions.Width > added[RoomSpecs.Theme]
        THEN [added EXCEPT ![RoomSpecs.Theme] = RoomSpecs.Dimensions.Width]
        ELSE widths

\* UpdateMaxWidth without the comparison: the width of the latest asset of the
\* theme is stored.
UpdateMaxWidth_Latest(widths, Asset) ==
    LET RoomSpecs == GetRoomSpecs(Asset)
        added == FindOrAdd(widths, RoomSpecs.Theme, DefaultNumberOfTiles)
    IN  [added EXCEPT ![RoomSpecs.Theme] = RoomSpecs.Dimensions.Width]

\* The first half of FDungeonRoomDatabase::UpdateMaxWidthAndLengthMaps: the
\* width map after Asset.
UpdateMaxWidth(widths, Asset) ==
    LET RoomSpecs == GetRoomSpecs(Asset)
        added == FindOrAdd(widths, RoomSpecs.Theme, DefaultNumberOfTiles)
    IN  IF RoomSpecs.Dimensions.Width > added[RoomSpecs.Theme]
        THEN [added EXCEPT ![RoomSpecs.Theme] = RoomSpecs.Dimensions.Width]
        ELSE added

\* UpdateMaxLength with the width compared and stored, as a copy of the first
\* half would.
UpdateMaxLength_FromWidth(lengths, Asset) ==
    LET RoomSpecs == GetRoomSpecs(Asset)
        added == FindOrAdd(lengths, RoomSpecs.Theme, DefaultNumberOfTiles)
    IN  IF RoomSpecs.Dimensions.Width > added[RoomSpecs.Theme]
        THEN [added EXCEPT ![RoomSpecs.Theme] = RoomSpecs.Dimensions.Width]
        ELSE added

\* The second half of FDungeonRoomDatabase::UpdateMaxWidthAndLengthMaps: the
\* length map after Asset.
UpdateMaxLength(lengths, Asset) ==
    LET RoomSpecs == GetRoomSpecs(Asset)
        added == FindOrAdd(lengths, RoomSpecs.Theme, DefaultNumberOfTiles)
    IN  IF RoomSpecs.Dimensions.Length > added[RoomSpecs.Theme]
        THEN [added EXCEPT ![RoomSpecs.Theme] = RoomSpecs.Dimensions.Length]
        ELSE added

EmptyMap == [k \in {} |-> 0]

\* Algo::ForEach(RoomAssets, AddAssetToDatabase) on a new database: the three
\* maps after the first n assets of Assets were added in their order.
RECURSIVE DatabaseOf(_, _)
DatabaseOf(Assets, n) ==
    IF n = 0
    THEN [paths |-> EmptyMap, widths |-> EmptyMap, lengths |-> EmptyMap]
    ELSE LET before == DatabaseOf(Assets, n - 1)
         IN  [paths |-> UpdateAssetPathsMap(before.paths, Assets[n]),
              widths |-> UpdateMaxWidth(before.widths, Assets[n]),
              lengths |-> UpdateMaxLength(before.lengths, Assets[n])]

\* The generator instances that read the built database.
Readers == {"r1", "r2"}

\* The record of a query: status is "ok" and value the value returned, or status
\* is the check that failed.
NoQuery == [op |-> "none", arg |-> "none", status |-> "none", value |-> "none"]

\* No reader has made a query.
NoReads == [r \in Readers |-> NoQuery]

\* InitializeDatabase without the check that an asset was found: Algo::ForEach
\* over no asset returns at once.
InitializeDatabase_Unchecked ==
    /\ dbpc = "constructing"
    /\ dbpc' = IF Len(RoomAssets) > 0 THEN "building" ELSE "built"
    /\ UNCHANGED <<RoomAssets, nAdded, m_PathsByRoomSpecs, m_MaxWidthByTheme,
                   m_MaxLengthByTheme, query, reads>>
    /\ UNCHANGED roomVars

\* FDungeonRoomDatabase::InitializeDatabase up to Algo::ForEach: the search of
\* the assets and the check that there is one.
InitializeDatabase ==
    /\ dbpc = "constructing"
    /\ IF Len(RoomAssets) > 0
       THEN dbpc' = "building" /\ query' = query
       ELSE /\ dbpc' = "halted"
            /\ query' = [op |-> "InitializeDatabase", arg |-> "none",
                         status |-> "EmptyCatalog", value |-> "none"]
    /\ UNCHANGED <<RoomAssets, nAdded, m_PathsByRoomSpecs, m_MaxWidthByTheme,
                   m_MaxLengthByTheme, reads>>
    /\ UNCHANGED roomVars

\* One turn of Algo::ForEach: FDungeonRoomDatabase::AddAssetToDatabase on the
\* next asset; the constructor returns after the last.
AddAssetToDatabase ==
    /\ dbpc = "building"
    /\ nAdded < Len(RoomAssets)
    /\ LET Asset == RoomAssets[nAdded + 1]
       IN  /\ m_PathsByRoomSpecs' = UpdateAssetPathsMap(m_PathsByRoomSpecs, Asset)
           /\ m_MaxWidthByTheme' = UpdateMaxWidth(m_MaxWidthByTheme, Asset)
           /\ m_MaxLengthByTheme' = UpdateMaxLength(m_MaxLengthByTheme, Asset)
    /\ nAdded' = nAdded + 1
    /\ dbpc' = IF nAdded + 1 = Len(RoomAssets) THEN "built" ELSE "building"
    /\ UNCHANGED <<RoomAssets, query, reads>>
    /\ UNCHANGED roomVars

\* A query that fails its check: recorded, nothing else changes, the run ends.
QueryFails(op, arg, kind) ==
    /\ query' = [op |-> op, arg |-> arg, status |-> kind, value |-> "none"]
    /\ dbpc' = "halted"
    /\ UNCHANGED <<RoomAssets, nAdded, m_PathsByRoomSpecs, m_MaxWidthByTheme,
                   m_MaxLengthByTheme, reads>>
    /\ UNCHANGED roomVars

\* A query that returns result.  A query changes nothing but the record of it,
\* so a behaviour makes one query on the database it built: a second query
\* would meet the same database.
QueryReturns(op, arg, result) ==
    /\ query' = [op |-> op, arg |-> arg, status |-> "ok", value |-> result]
    /\ UNCHANGED <<dbpc, RoomAssets, nAdded, m_PathsByRoomSpecs, m_MaxWidthByTheme,
                   m_MaxLengthByTheme, reads>>
    /\ UNCHANGED roomVars

\* DoesAssetExistWithSpecs without its check of the size: specs of no size are
\* looked up like any other.
DoesAssetExistWithSpecs_Unchecked ==
    /\ dbpc = "built"
    /\ query.op = "none"
    /\ \E Specs \in RoomSpecsValues :
          QueryReturns("DoesAssetExistWithSpecs", Specs,
                       ContainsSpecs(m_PathsByRoomSpecs, Specs))

\* FDungeonRoomDatabase::DoesAssetExistWithSpecs
DoesAssetExistWithSpecs ==
    /\ dbpc = "built"
    /\ query.op = "none"
    /\ \E Specs \in RoomSpecsValues :
          IF Specs.Dimensions.Width > 0 /\ Specs.Dimensions.Length > 0
          THEN QueryReturns("DoesAssetExistWithSpecs", Specs,
                            ContainsSpecs(m_PathsByRoomSpecs, Specs))
          ELSE QueryFails("DoesAssetExistWithSpecs", Specs, "InvalidSpecification")

\* FDungeonRoomDatabase::GetAssetPaths: TMap::FindChecked
GetAssetPaths ==
    /\ dbpc = "built"
    /\ query.op = "none"
    /\ \E RoomSpecs \in RoomSpecsValues :
          IF ContainsSpecs(m_PathsByRoomSpecs, RoomSpecs)
          THEN QueryReturns("GetAssetPaths", RoomSpecs,
                   m_PathsByRoomSpecs[KeyOfSpecs(m_PathsByRoomSpecs, RoomSpecs)])
          ELSE QueryFails("GetAssetPaths", RoomSpecs, "SpecificationNotFound")

\* GetMaxWidth with FindOrAdd in the place of FindChecked: a theme that is no
\* key is added with the default value, which is returned.
GetMaxWidth_FindOrAdd ==
    /\ dbpc = "built"
    /\ query.op = "none"
    /\ \E Theme \in Themes :
          /\ m_MaxWidthByTheme' =
                 FindOrAdd(m_MaxWidthByTheme, Theme, DefaultNumberOfTiles)
          /\ query' = [op |-> "GetMaxWidth", arg |-> Theme, status |-> "ok",
                       value |-> m_MaxWidthByTheme'[Theme]]
    /\ UNCHANGED <<dbpc, RoomAssets, nAdded, m_PathsByRoomSpecs,
                   m_MaxLengthByTheme, reads>>
    /\ UNCHANGED roomVars

\* FDungeonRoomDatabase::GetMaxWidth: TMap::FindChecked
GetMaxWidth ==
    /\ dbpc = "built"
    /\ query.op = "none"
    /\ \E Theme \in Themes :
          IF Theme \in DOMAIN m_MaxWidthByTheme
          THEN QueryReturns("GetMaxWidth", Theme, m_MaxWidthByTheme[Theme])
          ELSE QueryFails("GetMaxWidth", Theme, "ThemeNotFound")

\* FDungeonRoomDatabase::GetMaxLength: TMap::FindChecked
GetMaxLength ==
    /\ dbpc = "built"
    /\ query.op = "none"
    /\ \E Theme \in Themes :
          IF Theme \in DOMAIN m_MaxLengthByTheme
          THEN QueryReturns("GetMaxLength", Theme, m_MaxLengthByTheme[Theme])
          ELSE QueryFails("GetMaxLength", Theme, "ThemeNotFound")

\* What a query returns on the maps as they are: status "ok" and the value, or
\* the check that fails.
QueryOutcome(op, arg) ==
    IF op = "DoesAssetExistWithSpecs"
    THEN IF arg.Dimensions.Width > 0 /\ arg.Dimensions.Length > 0
         THEN [status |-> "ok", value |-> ContainsSpecs(m_PathsByRoomSpecs, arg)]
         ELSE [status |-> "InvalidSpecification", value |-> "none"]
    ELSE IF op = "GetAssetPaths"
    THEN IF ContainsSpecs(m_PathsByRoomSpecs, arg)
         THEN [status |-> "ok",
               value |-> m_PathsByRoomSpecs[KeyOfSpecs(m_PathsByRoomSpecs, arg)]]
         ELSE [status |-> "SpecificationNotFound", value |-> "none"]
    ELSE IF op = "GetMaxWidth"
    THEN IF arg \in DOMAIN m_MaxWidthByTheme
         THEN [status |-> "ok", value |-> m_MaxWidthByTheme[arg]]
         ELSE [status |-> "ThemeNotFound", value |-> "none"]
    ELSE IF arg \in DOMAIN m_MaxLengthByTheme
         THEN [status |-> "ok", value |-> m_MaxLengthByTheme[arg]]
         ELSE [status |-> "ThemeNotFound", value |-> "none"]

\* The built database serves its readers.  A failed check of one reader ends
\* the process, but not before the query another reader has under way can
\* reach its own check or return.
Serving ==
    \/ dbpc = "built"
    \/ /\ dbpc = "halted"
       /\ \E r \in Readers : reads[r].op # "none" /\ reads[r].status # "ok"

\* Read with GetMaxWidth finding its theme by FindOrAdd: a theme that is no
\* key is added with the default value, which is returned.
Read_FindOrAdd(r, op, arg) ==
    /\ Serving
    /\ reads[r].op = "none"
    /\ m_MaxWidthByTheme' =
           IF op = "GetMaxWidth"
           THEN FindOrAdd(m_MaxWidthByTheme, arg, DefaultNumberOfTiles)
           ELSE m_MaxWidthByTheme
    /\ LET out == IF op = "GetMaxWidth"
                  THEN [status |-> "ok", value |-> m_MaxWidthByTheme'[arg]]
                  ELSE QueryOutcome(op, arg)
       IN  /\ reads' = [reads EXCEPT ![r] = [op |-> op, arg |-> arg,
                                             status |-> out.status,
                                             value |-> out.value]]
           /\ dbpc' = IF out.status = "ok" THEN dbpc ELSE "halted"
    /\ UNCHANGED <<RoomAssets, nAdded, m_PathsByRoomSpecs, m_MaxLengthByTheme, query>>
    /\ UNCHANGED roomVars

\* Reader r makes the query op(arg) on the built database.  The four queries
\* are const: the reader's record of the query is all that changes, and a
\* failed check ends the process.
Read(r, op, arg) ==
    /\ Serving
    /\ reads[r].op = "none"
    /\ LET out == QueryOutcome(op, arg)
       IN  /\ reads' = [reads EXCEPT ![r] = [op |-> op, arg |-> arg,
                                             status |-> out.status,
                                             value |-> out.value]]
           /\ dbpc' = IF out.status = "ok" THEN dbpc ELSE "halted"
    /\ UNCHANGED <<RoomAssets, nAdded, m_PathsByRoomSpecs, m_MaxWidthByTheme,
                   m_MaxLengthByTheme, query>>
    /\ UNCHANGED roomVars

ReadDoesAssetExistWithSpecs ==
    \E r \in Readers, Specs \in RoomSpecsValues :
        Read(r, "DoesAssetExistWithSpecs", Specs)

ReadGetAssetPaths ==
    \E r \in Readers, RoomSpecs \in RoomSpecsValues :
        Read(r, "GetAssetPaths", RoomSpecs)

ReadGetMaxWidth == \E r \in Readers, Theme \in Themes : Read(r, "GetMaxWidth", Theme)

ReadGetMaxLength == \E r \in Readers, Theme \in Themes : Read(r, "GetMaxLength", Theme)

\* Sequences over S of length 0..n.
SeqsUpTo(S, n) == UNION { [1..k -> S] : k \in 0..n }

\* No database is under construction (the room specifications).
DbIdle ==
    /\ dbpc = "idle"
    /\ RoomAssets = << >>
    /\ nAdded = 0
    /\ m_PathsByRoomSpecs = EmptyMap
    /\ m_MaxWidthByTheme = EmptyMap
    /\ m_MaxLengthByTheme = EmptyMap
    /\ query = NoQuery
    /\ reads = NoReads

\* No room exists (the database specification).
NoRoom ==
    /\ pc = "none"
    /\ IsGameWorld = TRUE
    /\ children = [d \in Directions |-> << >>]
    /\ m_SegmentMeshes = [d \in Directions |-> << >>]
    /\ m_DoorMeshes = {}
    /\ m_WallMeshes = {}
    /\ m_Width = 0
    /\ m_Length = 0
    /\ call = NoCall
    /\ nCalls = 0
    /\ NoSpawn

\* FDungeonRoomDatabase(PathToAssets) is entered: the asset search will return
\* any sequence of at most MaxAssets assets.
InitDb ==
    /\ NoRoom
    /\ dbpc = "constructing"
    /\ RoomAssets \in SeqsUpTo(AssetData, MaxAssets)
    /\ nAdded = 0
    /\ m_PathsByRoomSpecs = EmptyMap
    /\ m_MaxWidthByTheme = EmptyMap
    /\ m_MaxLengthByTheme = EmptyMap
    /\ query = NoQuery
    /\ reads = NoReads

NextDb ==
    \/ InitializeDatabase
    \/ AddAssetToDatabase
    \/ DoesAssetExistWithSpecs
    \/ GetAssetPaths
    \/ GetMaxWidth
    \/ GetMaxLength

SpecDb == InitDb /\ [][NextDb]_vars

\* The database is built and then read by the readers, their queries in any
\* order.
NextReaders ==
    \/ InitializeDatabase
    \/ AddAssetToDatabase
    \/ ReadDoesAssetExistWithSpecs
    \/ ReadGetAssetPaths
    \/ ReadGetMaxWidth
    \/ ReadGetMaxLength

\* The assets of the catalogues that are built to be read: square rooms of
\* every theme, size and path.
SquareAssetData == { Asset \in AssetData : Asset.Width = Asset.Length }

InitReaders ==
    /\ NoRoom
    /\ dbpc = "constructing"
    /\ RoomAssets \in SeqsUpTo(SquareAssetData, MaxAssets)
    /\ nAdded = 0
    /\ m_PathsByRoomSpecs = EmptyMap
    /\ m_MaxWidthByTheme = EmptyMap
    /\ m_MaxLengthByTheme = EmptyMap
    /\ query = NoQuery
    /\ reads = NoReads

SpecReaders == InitReaders /\ [][NextReaders]_vars

\* ------------------------------------------------------------------ callers of a room

CallAddDoor ==
    /\ nCalls < MaxCalls
    /\ \E Location \in Locations : AddDoor(Location)
    /\ UNCHANGED dbVars

CallRemoveDoor ==
    /\ nCalls < MaxCalls
    /\ \E Location \in Locations : RemoveDoor(Location)
    /\ UNCHANGED dbVars

CallHasDoorAtLocation ==
    /\ nCalls < MaxCalls
    /\ \E Location \in Locations : QueryHasDoor(Location)
    /\ UNCHANGED dbVars

CallIsValidWallLocation ==
    /\ nCalls < MaxCalls
    /\ \E Location \in Locations : QueryIsValid(Location)
    /\ UNCHANGED dbVars

Init == DbIdle /\ NoSpawn /\ \E bp \in Blueprints : RoomOfBlueprint(bp)

\* ------------------------------------------------------------------ the 4 x 3 scenario

\* A blueprint of width 4 and length 3 authored without doors.
ScenarioBlueprint ==
    Blueprint(4, 3, WallsAsDeclared(4, 3, "MeshB"), {"MeshA"}, {"MeshB"})

\* The doors the scenario adds.
ScenarioDoors ==
    { [WallDirection |-> "North", SegmentIndex |-> 0],
      [WallDirection |-> "South", SegmentIndex |-> 2],
      [WallDirection |-> "East", SegmentIndex |-> 1],
      [WallDirection |-> "West", SegmentIndex |-> 0] }

\* The locations the scenario asks about: one index below and one above the
\* longer walls.
ScenarioLocations == [WallDirection : Directions, SegmentIndex : (0 - 1)..4]

InitScenario == DbIdle /\ NoSpawn /\ RoomOfBlueprint(ScenarioBlueprint)

\* The first calls of the scenario add its doors, in any order.
ScenarioAddDoor ==
    /\ nCalls < Cardinality(ScenarioDoors)
    /\ \E Location \in ScenarioDoors : AddDoor(Location)
    /\ UNCHANGED dbVars

\* The later calls ask where the doors are.
ScenarioHasDoorAtLocation ==
    /\ nCalls >= Cardinality(ScenarioDoors)
    /\ nCalls < Cardinality(ScenarioDoors) + MaxCalls
    /\ \E Location \in ScenarioLocations : QueryHasDoor(Location)
    /\ UNCHANGED dbVars

\* ... and which locations the room has.
ScenarioIsValidWallLocation ==
    /\ nCalls >= Cardinality(ScenarioDoors)
    /\ nCalls < Cardinality(ScenarioDoors) + MaxCalls
    /\ \E Location \in ScenarioLocations : QueryIsValid(Location)
    /\ UNCHANGED dbVars

NextScenario ==
    \/ SpawnActor
    \/ ScenarioAddDoor
    \/ ScenarioHasDoorAtLocation
    \/ ScenarioIsValidWallLocation

SpecScenario == InitScenario /\ [][NextScenario]_vars

\* ------------------------------------------------------------------ callers of a wall

\* The check of USegmentedWall::GetSegment and the dereference of the pointer
\* it returns: the failure met there, or "none".
GetSegmentFailure(Location) ==
    IF ~IsValidSegmentIndex(Location.WallDirection, Location.SegmentIndex)
    THEN "OutOfRange"
    ELSE IF GetSegment(Location.WallDirection, Location.SegmentIndex) = NullSegment
         THEN "NullSegment"
         ELSE "none"

\* CallSetStaticMesh refusing the mesh the segment shows already.
CallSetStaticMesh_IfChanged ==
    /\ pc = "ready"
    /\ nCalls < MaxCalls
    /\ \E Location \in Locations, NewMesh \in Meshes :
          IF GetSegmentFailure(Location) # "none"
          THEN Fails("SetStaticMesh", Location, GetSegmentFailure(Location))
          ELSE IF MeshAtLocation(Location) = NewMesh
          THEN Fails("SetStaticMesh", Location, "AlreadySet")
          ELSE /\ children' = SetStaticMesh(Location, NewMesh)
               /\ Returns("SetStaticMesh", Location, NewMesh)
    /\ UNCHANGED dbVars

\* GetSegment(SegmentIndex)->SetStaticMesh(NewMesh) on a wall, as
\* ADungeonRoom::SetStaticMesh does it: no check but that of GetSegment.  The
\* call is recorded with the mesh it set.
CallSetStaticMesh ==
    /\ pc = "ready"
    /\ nCalls < MaxCalls
    /\ \E Location \in Locations, NewMesh \in Meshes :
          IF GetSegmentFailure(Location) # "none"
          THEN Fails("SetStaticMesh", Location, GetSegmentFailure(Location))
          ELSE /\ children' = SetStaticMesh(Location, NewMesh)
               /\ Returns("SetStaticMesh", Location, NewMesh)
    /\ UNCHANGED dbVars

\* GetSegment(SegmentIndex)->GetStaticMesh() on a wall, as
\* ADungeonRoom::HasDoorAtLocation reads the mesh.
CallGetStaticMesh ==
    /\ pc = "ready"
    /\ nCalls < MaxCalls
    /\ \E Location \in Locations :
          IF GetSegmentFailure(Location) # "none"
          THEN Fails("GetStaticMesh", Location, GetSegmentFailure(Location))
          ELSE /\ Returns("GetStaticMesh", Location, MeshAtLocation(Location))
               /\ UNCHANGED children
    /\ UNCHANGED dbVars

NextWall ==
    \/ SpawnActor
    \/ CallSetStaticMesh
    \/ CallGetStaticMesh

SpecWall == Init /\ [][NextWall]_vars

\* A room of a blueprint with any tags is spawned and its walls are used.
InitTags == DbIdle /\ NoSpawn /\ \E bp \in TagBlueprints : RoomOfBlueprint(bp)

SpecTags == InitTags /\ [][NextWall]_vars

\* ------------------------------------------------------------------ ADungeonRoom::Spawn

\* ADungeonRoom::Spawn is entered with a blueprint, a world and any list of at
\* most MaxDoors door locations.  In a world that is no game world the walls
\* have no segment and the loop ends at its first turn, so the lists
\* enumerated for such a world have at most one location.
InitSpawn ==
    /\ DbIdle
    /\ \E bp \in Blueprints : RoomOfBlueprint(bp)
    /\ SpawnInfo \in [DoorLocations : SeqsUpTo(Locations, MaxDoors)]
    /\ IsGameWorld \/ Len(SpawnInfo.DoorLocations) <= 1
    /\ spawnpc = "spawning"

\* One turn of the loop of ADungeonRoom::Spawn: AddDoor on the next location
\* of the list.  The calls made on the room so far are the turns of the loop.
SpawnAddDoor ==
    /\ spawnpc = "spawning"
    /\ nCalls < Len(SpawnInfo.DoorLocations)
    /\ AddDoor(SpawnInfo.DoorLocations[nCalls + 1])
    /\ UNCHANGED dbVars

\* Spawn returning after the first turn of its loop.
SpawnReturn_AfterFirst ==
    /\ pc = "ready"
    /\ spawnpc = "spawning"
    /\ nCalls >= 1 \/ nCalls = Len(SpawnInfo.DoorLocations)
    /\ spawnpc' = "returned"
    /\ UNCHANGED <<pc, IsGameWorld, children, m_SegmentMeshes, m_DoorMeshes,
                   m_WallMeshes, m_Width, m_Length, call, nCalls, SpawnInfo>>
    /\ UNCHANGED dbVars

\* return SpawnedRoom: the loop is over and the room is handed to the caller.
SpawnReturn ==
    /\ pc = "ready"
    /\ spawnpc = "spawning"
    /\ nCalls = Len(SpawnInfo.DoorLocations)
    /\ spawnpc' = "returned"
    /\ UNCHANGED <<pc, IsGameWorld, children, m_SegmentMeshes, m_DoorMeshes,
                   m_WallMeshes, m_Width, m_Length, call, nCalls, SpawnInfo>>
    /\ UNCHANGED dbVars

\* The caller of Spawn asks the room it got where its doors are.
SpawnedHasDoorAtLocation ==
    /\ spawnpc = "returned"
    /\ nCalls = Len(SpawnInfo.DoorLocations)
    /\ \E Location \in Locations : QueryHasDoor(Location)
    /\ UNCHANGED dbVars

NextSpawn ==
    \/ SpawnActor
    \/ SpawnAddDoor
    \/ SpawnReturn
    \/ SpawnedHasDoorAtLocation

SpecSpawn == InitSpawn /\ [][NextSpawn]_vars

Next ==
    \/ SpawnActor
    \/ CallAddDoor
    \/ CallRemoveDoor
    \/ CallHasDoorAtLocation
    \/ CallIsValidWallLocation

Spec == Init /\ [][Next]_vars

\* The blueprints authored without a door: no segment shows a mesh of the door
\* palette.
DoorlessBlueprints ==
    { bp \in Blueprints :
        \A d \in Directions : \A k \in 1..Len(bp.children[d]) :
            bp.children[d][k].mesh \notin bp.doorMeshes }

\* A room is created without doors and called like any room.
InitNoDoors == DbIdle /\ NoSpawn /\ \E bp \in DoorlessBlueprints : RoomOfBlueprint(bp)

SpecNoDoors == InitNoDoors /\ [][Next]_vars

\* ------------------------------------------------------------------ claims on the room

\* The locations of Locations that are valid in the room.
ValidLocations == { L \in Locations : IsValidWallLocation(L) }

\* The number of segments the declared footprint gives the wall of direction d
\* (the comment of IsValidWallLocation in DungeonRoom.h).
DeclaredSegments(d) == IF d \in {"North", "South"} THEN m_Width ELSE m_Length

\* The last step was a call on the room.
IsCall == nCalls' = nCalls + 1

\* C1: after a successful AddDoor(L), whatever calls came before it,
\* HasDoorAtLocation(L) is true.
C1_AddDoorThenHasDoor ==
    (call.op = "AddDoor" /\ call.result = "ok") => HasDoorAtLocation(call.loc)

\* A door was added to the second segment of a wall after an earlier call.
C1_Witness ==
    /\ call.op = "AddDoor" /\ call.result = "ok"
    /\ call.loc.SegmentIndex = 1
    /\ nCalls >= 2
    /\ HasDoorAtLocation(call.loc)

\* C2: after a successful RemoveDoor(L), HasDoorAtLocation(L) is false,
\* whichever mesh of the wall palette replaced the door.
C2_RemoveDoorThenNoDoor ==
    (call.op = "RemoveDoor" /\ call.result = "ok") => ~HasDoorAtLocation(call.loc)

\* C3: AddDoor on a valid location that has a door fails with
\* DoorAlreadyPresent, RemoveDoor on a valid location without a door fails with
\* NoDoorPresent, and the failed call leaves every segment as it was.
C3_StrictAddAndRemove ==
    [][LET L == call'.loc
       IN  (IsCall /\ SegmentFailure(L) = "none") =>
             /\ (call'.op = "AddDoor" /\ HasDoorAtLocation(L)) =>
                   /\ call'.result = "DoorAlreadyPresent"
                   /\ pc' = "halted"
                   /\ UNCHANGED <<children, m_SegmentMeshes>>
             /\ (call'.op = "RemoveDoor" /\ ~HasDoorAtLocation(L)) =>
                   /\ call'.result = "NoDoorPresent"
                   /\ pc' = "halted"
                   /\ UNCHANGED <<children, m_SegmentMeshes>>]_vars

\* A door was added by an earlier call and adding it again failed.
C3_Witness ==
    /\ call.op = "AddDoor" /\ call.result = "DoorAlreadyPresent"
    /\ nCalls >= 2
    /\ HasDoorAtLocation(call.loc)

\* C4: AddDoor, RemoveDoor and HasDoorAtLocation on an invalid location fail
\* with InvalidLocation, never with another failure, and change no segment.
C4_InvalidLocationFirst ==
    [][(/\ IsCall
        /\ call'.op \in {"AddDoor", "RemoveDoor", "HasDoorAtLocation"}
        /\ ~IsValidWallLocation(call'.loc)) =>
          /\ call'.result = "InvalidLocation"
          /\ pc' = "halted"
          /\ UNCHANGED <<children, m_SegmentMeshes>>]_vars

\* RemoveDoor was called with the index just above the wall, in a room that
\* has a door.
C4_Witness ==
    /\ call.op = "RemoveDoor" /\ call.result = "InvalidLocation"
    /\ call.loc.SegmentIndex = Len(m_SegmentMeshes[call.loc.WallDirection])
    /\ \E L \in ValidLocations : HasDoorAtLocation(L)

\* C5: IsValidWallLocation is true exactly for the indices 0 .. width-1 of the
\* North and South walls and 0 .. length-1 of the East and West walls.
C5_ValidIffInsideFootprint ==
    pc = "ready" =>
        \A L \in Locations :
            IsValidWallLocation(L) <=>
                (L.SegmentIndex >= 0 /\ L.SegmentIndex < DeclaredSegments(L.WallDirection))

\* C6: a freshly created room has no door at any valid location.
C6_FreshRoomHasNoDoor ==
    (pc = "ready" /\ nCalls = 0) => \A L \in ValidLocations : ~HasDoorAtLocation(L)

\* C7: the North and South walls have m_Width segments and the East and West
\* walls m_Length segments in every state of a spawned room.
C7_WallsMatchFootprint ==
    pc \in {"ready", "halted"} /\ call.result # "MissingDoorMeshes"
                               /\ call.result # "MissingWallMeshes" =>
        \A d \in Directions : Len(m_SegmentMeshes[d]) = DeclaredSegments(d)

\* C20: a successful AddDoor(L) or RemoveDoor(L) leaves every segment but the
\* one at L with or without a door as it was, and no call changes the number
\* of segments of a wall, the palettes or m_Width and m_Length;
\* HasDoorAtLocation and IsValidWallLocation change nothing of the room.
C20_OnlyTheSegmentChanges ==
    [][IsCall =>
          /\ UNCHANGED <<m_SegmentMeshes, m_DoorMeshes, m_WallMeshes, m_Width, m_Length>>
          /\ \A d \in Directions : Len(children'[d]) = Len(children[d])
          /\ (call'.op \in {"AddDoor", "RemoveDoor"} /\ call'.result = "ok") =>
                \A L \in ValidLocations \ {call'.loc} :
                    /\ children'[L.WallDirection]
                                [GetSegment(L.WallDirection, L.SegmentIndex)].mesh
                          = MeshAtLocation(L)
                    /\ children'[L.WallDirection]
                                [GetSegment(L.WallDirection, L.SegmentIndex)].mesh
                          \in m_DoorMeshes' <=> HasDoorAtLocation(L)
          /\ call'.op \in {"HasDoorAtLocation", "IsValidWallLocation"} =>
                UNCHANGED children]_vars

\* A door was removed from a wall that has another door, which is still there.
C20_Witness ==
    /\ call.op = "RemoveDoor" /\ call.result = "ok"
    /\ \E L \in ValidLocations :
          /\ L # call.loc
          /\ L.WallDirection = call.loc.WallDirection
          /\ HasDoorAtLocation(L)
    /\ ~HasDoorAtLocation(call.loc)

\* The segment at the valid location L shows a door mesh after the step.
HasDoorAfter(L) ==
    children'[L.WallDirection][GetSegment(L.WallDirection, L.SegmentIndex)].mesh
        \in m_DoorMeshes'

\* C23: in a room created without doors, a successful AddDoor(L) finds no
\* door at L and leaves one, a successful RemoveDoor(L) finds a door at L and
\* leaves none, and every other call, failed calls included, leaves L as it
\* was: the successful calls on L alternate, AddDoor first, and L has a door
\* exactly when the last of them was AddDoor.
C23_AddAndRemoveAlternate ==
    [][IsCall =>
          /\ nCalls = 0 => \A L \in ValidLocations : ~HasDoorAtLocation(L)
          /\ \A L \in ValidLocations :
                IF call'.loc = L /\ call'.result = "ok" /\ call'.op = "AddDoor"
                THEN ~HasDoorAtLocation(L) /\ HasDoorAfter(L)
                ELSE IF call'.loc = L /\ call'.result = "ok" /\ call'.op = "RemoveDoor"
                THEN HasDoorAtLocation(L) /\ ~HasDoorAfter(L)
                ELSE HasDoorAfter(L) <=> HasDoorAtLocation(L)]_vars

\* C24: RemoveDoor(L) made right after a successful AddDoor(L) succeeds and
\* leaves L without a door, as it was before the two calls, and every other
\* segment as it was; AddDoor(L) made right after a successful RemoveDoor(L)
\* succeeds and leaves L with a door, and every other segment as it was.
C24_RoundTrip ==
    [][(/\ IsCall
        /\ call.result = "ok"
        /\ call'.loc = call.loc
        /\ \/ call.op = "AddDoor" /\ call'.op = "RemoveDoor"
           \/ call.op = "RemoveDoor" /\ call'.op = "AddDoor") =>
          /\ call'.result = "ok"
          /\ HasDoorAfter(call.loc) <=> (call'.op = "AddDoor")
          /\ \A L \in ValidLocations \ {call.loc} :
                HasDoorAfter(L) <=> HasDoorAtLocation(L)]_vars

\* ------------------------------------------------------------------ claims on the scenario

\* The valid locations of the scenario's room that are none of its doors.
ScenarioOthers(d) ==
    { L \in ScenarioLocations :
        IsValidWallLocation(L) /\ L.WallDirection = d /\ L \notin ScenarioDoors }

\* After the four doors were added, the doors of the room are those four.
ScenarioDoorsOnly ==
    /\ \A L \in ScenarioLocations :
          IsValidWallLocation(L) => (HasDoorAtLocation(L) <=> L \in ScenarioDoors)
    /\ call.op = "HasDoorAtLocation" =>
          call.result = BoolResult(call.loc \in ScenarioDoors)

\* C8 as stated: after the four doors were added to the 4 x 3 room, they are
\* its only doors and 8 valid locations are left: 3 North, 1 South, 1 East,
\* 2 West.
C8_ScenarioEightOthers ==
    (pc = "ready" /\ nCalls >= Cardinality(ScenarioDoors)) =>
        /\ ScenarioDoorsOnly
        /\ Cardinality(UNION { ScenarioOthers(d) : d \in Directions }) = 8
        /\ Cardinality(ScenarioOthers("North")) = 3
        /\ Cardinality(ScenarioOthers("South")) = 1
        /\ Cardinality(ScenarioOthers("East")) = 1
        /\ Cardinality(ScenarioOthers("West")) = 2

\* C8 as amended: after the four doors were added to the 4 x 3 room, they are
\* its only doors and 10 valid locations are left: 3 North, 3 South, 2 East,
\* 2 West.
C8_ScenarioTenOthers ==
    (pc = "ready" /\ nCalls >= Cardinality(ScenarioDoors)) =>
        /\ ScenarioDoorsOnly
        /\ Cardinality(UNION { ScenarioOthers(d) : d \in Directions }) = 10
        /\ Cardinality(ScenarioOthers("North")) = 3
        /\ Cardinality(ScenarioOthers("South")) = 3
        /\ Cardinality(ScenarioOthers("East")) = 2
        /\ Cardinality(ScenarioOthers("West")) = 2

\* The four doors were added and HasDoorAtLocation was asked about another
\* segment of the South wall.
C8_Witness ==
    /\ pc = "ready"
    /\ nCalls > Cardinality(ScenarioDoors)
    /\ call.op = "HasDoorAtLocation"
    /\ call.loc = [WallDirection |-> "South", SegmentIndex |-> 3]
    /\ call.result = "false"

\* ------------------------------------------------------------------ claims on the database

\* The assets AddAssetToDatabase has processed that have theme t.
ProcessedOfTheme(t) == { i \in 1..nAdded : RoomAssets[i].Theme = t }

\* The largest element of a non-empty set of numbers.
MaxOf(S) == CHOOSE m \in S : \A x \in S : x <= m

\* The widest and the longest processed asset of theme t.
WidestOfTheme(t) == MaxOf({ RoomAssets[i].Width : i \in ProcessedOfTheme(t) })
LongestOfTheme(t) == MaxOf({ RoomAssets[i].Length : i \in ProcessedOfTheme(t) })

\* C9: after every asset processed, and after the build, the maps hold for
\* every theme of a processed asset the largest width and the largest length
\* of the processed assets of the theme, and GetMaxWidth and GetMaxLength
\* return them.
C9_MaxPerTheme ==
    \A t \in Themes :
        ProcessedOfTheme(t) # {} =>
            /\ t \in DOMAIN m_MaxWidthByTheme
            /\ t \in DOMAIN m_MaxLengthByTheme
            /\ m_MaxWidthByTheme[t] = WidestOfTheme(t)
            /\ m_MaxLengthByTheme[t] = LongestOfTheme(t)
            /\ (query.op = "GetMaxWidth" /\ query.arg = t) =>
                  (query.status = "ok" /\ query.value = WidestOfTheme(t))
            /\ (query.op = "GetMaxLength" /\ query.arg = t) =>
                  (query.status = "ok" /\ query.value = LongestOfTheme(t))

\* GetMaxLength was asked for a theme whose largest width and largest length
\* are positive and come from different assets: no asset of the theme has both.
C9_Witness ==
    /\ dbpc = "built"
    /\ query.op = "GetMaxLength"
    /\ query.status = "ok"
    /\ query.value > 0
    /\ WidestOfTheme(query.arg) > 0
    /\ \A i \in ProcessedOfTheme(query.arg) :
          ~(/\ RoomAssets[i].Width = WidestOfTheme(query.arg)
            /\ RoomAssets[i].Length = LongestOfTheme(query.arg))

\* Asset i has the theme, the width and the length of Specs.
AssetHasSpecs(i, Specs) ==
    /\ RoomAssets[i].Theme = Specs.Theme
    /\ RoomAssets[i].Width = Specs.Dimensions.Width
    /\ RoomAssets[i].Length = Specs.Dimensions.Length

\* C10: DoesAssetExistWithSpecs on specs of positive width and length returns,
\* and returns true exactly when an asset of the build has the same theme, the
\* same width and the same length.
C10_ExistsIffSupplied ==
    (/\ query.op = "DoesAssetExistWithSpecs"
     /\ query.arg.Dimensions.Width > 0
     /\ query.arg.Dimensions.Length > 0) =>
        /\ query.status = "ok"
        /\ query.value <=> \E i \in 1..Len(RoomAssets) : AssetHasSpecs(i, query.arg)

\* DoesAssetExistWithSpecs returned false although an asset with the same theme
\* and width and another length was supplied, and another asset after it.
C10_Witness ==
    /\ query.op = "DoesAssetExistWithSpecs"
    /\ query.status = "ok"
    /\ query.value = FALSE
    /\ Len(RoomAssets) >= 2
    /\ \E i \in 1..Len(RoomAssets) :
          /\ RoomAssets[i].Theme = query.arg.Theme
          /\ RoomAssets[i].Width = query.arg.Dimensions.Width
          /\ RoomAssets[i].Length # query.arg.Dimensions.Length

\* The paths of the first n assets that have the theme, the width and the
\* length of Specs, one entry per asset, in the order of the assets.
RECURSIVE LocatorsOfSpecs(_, _)
LocatorsOfSpecs(Specs, n) ==
    IF n = 0 THEN << >>
    ELSE IF AssetHasSpecs(n, Specs)
         THEN Append(LocatorsOfSpecs(Specs, n - 1), RoomAssets[n].Path)
         ELSE LocatorsOfSpecs(Specs, n - 1)

\* C11: the array kept for room specs holds the paths of exactly the processed
\* assets with those specs, one entry per asset (a path supplied twice is there
\* twice), in the order the assets arrived, and GetAssetPaths returns it.
C11_PathsInArrivalOrder ==
    /\ \A Specs \in RoomSpecsValues :
          ContainsSpecs(m_PathsByRoomSpecs, Specs) =>
              m_PathsByRoomSpecs[KeyOfSpecs(m_PathsByRoomSpecs, Specs)]
                  = LocatorsOfSpecs(Specs, nAdded)
    /\ (query.op = "GetAssetPaths" /\ query.status = "ok") =>
          query.value = LocatorsOfSpecs(query.arg, Len(RoomAssets))

\* GetAssetPaths returned two different paths, the one that sorts last first.
C11_Witness ==
    /\ query.op = "GetAssetPaths"
    /\ query.status = "ok"
    /\ query.value = <<"b", "a">>

\* C12: DoesAssetExistWithSpecs on specs whose width or length is not positive
\* fails with InvalidSpecification and returns nothing, also when an asset
\* with those very specs was supplied, and the failed query leaves the maps as
\* they were.
C12_InvalidSpecificationFails ==
    [][(/\ query.op = "none"
        /\ query'.op = "DoesAssetExistWithSpecs"
        /\ (query'.arg.Dimensions.Width <= 0 \/ query'.arg.Dimensions.Length <= 0)) =>
          /\ query'.status = "InvalidSpecification"
          /\ dbpc' = "halted"
          /\ UNCHANGED <<RoomAssets, nAdded, m_PathsByRoomSpecs, m_MaxWidthByTheme,
                         m_MaxLengthByTheme>>]_vars

\* The query failed on specs of width 0 that an asset of the build has.
C12_Witness ==
    /\ query.op = "DoesAssetExistWithSpecs"
    /\ query.status = "InvalidSpecification"
    /\ query.arg.Dimensions.Width = 0
    /\ \E i \in 1..Len(RoomAssets) : AssetHasSpecs(i, query.arg)
    /\ ContainsSpecs(m_PathsByRoomSpecs, query.arg)

\* C13: the build from no asset fails with EmptyCatalog before an asset is
\* processed, a database that can be queried has no empty map, and the build
\* from one asset or more does not fail.
C13_EmptyCatalogFails ==
    /\ (Len(RoomAssets) = 0 /\ dbpc # "constructing") =>
          /\ dbpc = "halted"
          /\ query.op = "InitializeDatabase" /\ query.status = "EmptyCatalog"
          /\ nAdded = 0
          /\ DOMAIN m_PathsByRoomSpecs = {}
    /\ (dbpc = "built" \/ query.op \notin {"none", "InitializeDatabase"}) =>
          /\ DOMAIN m_PathsByRoomSpecs # {}
          /\ DOMAIN m_MaxWidthByTheme # {}
          /\ DOMAIN m_MaxLengthByTheme # {}
    /\ Len(RoomAssets) > 0 =>
          /\ query.status # "EmptyCatalog"
          /\ dbpc = "halted" => query.op \notin {"none", "InitializeDatabase"}
          /\ dbpc = "building" => nAdded < Len(RoomAssets)

\* The build from no asset has failed.
C13_Witness ==
    /\ Len(RoomAssets) = 0
    /\ dbpc = "halted"
    /\ query.status = "EmptyCatalog"

\* C14: GetAssetPaths on specs no asset has fails with SpecificationNotFound,
\* GetMaxWidth and GetMaxLength on a theme no asset has fail with
\* ThemeNotFound; a failed lookup returns no value, adds no key and leaves the
\* maps as they were.
C14_AbsentKeyFails ==
    [][(/\ query.op = "none"
        /\ query'.op \in {"GetAssetPaths", "GetMaxWidth", "GetMaxLength"}) =>
          /\ (/\ query'.op = "GetAssetPaths"
              /\ ~\E i \in 1..Len(RoomAssets) : AssetHasSpecs(i, query'.arg)) =>
                 query'.status = "SpecificationNotFound"
          /\ (/\ query'.op \in {"GetMaxWidth", "GetMaxLength"}
              /\ ~\E i \in 1..Len(RoomAssets) : RoomAssets[i].Theme = query'.arg) =>
                 query'.status = "ThemeNotFound"
          /\ query'.status # "ok" =>
                 /\ query'.value = "none"
                 /\ dbpc' = "halted"
                 /\ UNCHANGED <<RoomAssets, nAdded, m_PathsByRoomSpecs,
                                m_MaxWidthByTheme, m_MaxLengthByTheme>>]_vars

\* GetMaxWidth failed on a theme that none of the assets of the build has.
C14_Witness ==
    /\ query.op = "GetMaxWidth"
    /\ query.status = "ThemeNotFound"
    /\ Len(RoomAssets) = nAdded /\ nAdded >= 1
    /\ query.arg \notin DOMAIN m_MaxWidthByTheme

\* What the query op(arg) returns when it is the only query made on the
\* database built from RoomAssets.
ResultAlone(op, arg) ==
    IF op = "DoesAssetExistWithSpecs"
    THEN IF arg.Dimensions.Width > 0 /\ arg.Dimensions.Length > 0
         THEN [status |-> "ok",
               value |-> \E i \in 1..Len(RoomAssets) : AssetHasSpecs(i, arg)]
         ELSE [status |-> "InvalidSpecification", value |-> "none"]
    ELSE IF op = "GetAssetPaths"
    THEN IF \E i \in 1..Len(RoomAssets) : AssetHasSpecs(i, arg)
         THEN [status |-> "ok", value |-> LocatorsOfSpecs(arg, Len(RoomAssets))]
         ELSE [status |-> "SpecificationNotFound", value |-> "none"]
    ELSE IF ~\E i \in 1..Len(RoomAssets) : RoomAssets[i].Theme = arg
    THEN [status |-> "ThemeNotFound", value |-> "none"]
    ELSE IF op = "GetMaxWidth"
    THEN [status |-> "ok",
          value |-> MaxOf({ RoomAssets[i].Width :
                              i \in { j \in 1..Len(RoomAssets) : RoomAssets[j].Theme = arg } })]
    ELSE [status |-> "ok",
          value |-> MaxOf({ RoomAssets[i].Length :
                              i \in { j \in 1..Len(RoomAssets) : RoomAssets[j].Theme = arg } })]

\* C15: once the database is built, no query of any reader, returning or
\* failing, in any order with the queries of the other readers, changes one of
\* the three maps, and every query returns what it returns when made alone on
\* the database just built.
C15_ReadOnlyAfterBuild ==
    [][Serving =>
          /\ UNCHANGED <<RoomAssets, nAdded, m_PathsByRoomSpecs, m_MaxWidthByTheme,
                         m_MaxLengthByTheme>>
          /\ \A r \in Readers :
                (reads[r].op = "none" /\ reads'[r].op # "none") =>
                    /\ reads'[r].status = ResultAlone(reads'[r].op, reads'[r].arg).status
                    /\ reads'[r].value = ResultAlone(reads'[r].op, reads'[r].arg).value]_vars

\* Both readers have made a query, one of which failed after the other had
\* returned a value from the same database.
C15_Witness ==
    /\ reads["r1"].op = "GetAssetPaths" /\ reads["r1"].status = "ok"
    /\ Len(reads["r1"].value) = 2
    /\ reads["r2"].op = "GetMaxLength" /\ reads["r2"].status = "ThemeNotFound"

\* C18: whenever GetMaxWidth or GetMaxLength returns, the value returned is 1
\* or more, whatever assets the database was built from, assets of width or
\* length 0 included.
C18_MaxIsPositive ==
    (query.op \in {"GetMaxWidth", "GetMaxLength"} /\ query.status = "ok") =>
        query.value >= 1

\* DoesAssetExistWithSpecs returned true to the reader.
ReturnedTrue(read) == IF read.status = "ok" THEN read.value ELSE FALSE

\* C19: in every state of the build and after it, every key of
\* m_PathsByRoomSpecs has an array of one path or more; GetAssetPaths never
\* returns an empty array, and DoesAssetExistWithSpecs is true exactly for the
\* specs for which GetAssetPaths returns.
C19_ExistsIffPathsReturned ==
    /\ \A k \in DOMAIN m_PathsByRoomSpecs : Len(m_PathsByRoomSpecs[k]) >= 1
    /\ \A r \in Readers :
          (reads[r].op = "GetAssetPaths" /\ reads[r].status = "ok") =>
              Len(reads[r].value) >= 1
    /\ \A r1, r2 \in Readers :
          (/\ reads[r1].op = "DoesAssetExistWithSpecs"
           /\ reads[r2].op = "GetAssetPaths"
           /\ SpecsEqual(reads[r1].arg, reads[r2].arg)) =>
              (ReturnedTrue(reads[r1]) <=> reads[r2].status = "ok")

\* ------------------------------------------------------------------ claims on the tags

\* The walls of the room were initialized: it was spawned in a game world and
\* the check of the palettes, which comes first, did not stop it.
WallsInitialized ==
    /\ pc \in {"ready", "halted"}
    /\ IsGameWorld
    /\ call.result \notin {"MissingDoorMeshes", "MissingWallMeshes"}

\* C21: when a wall is initialized, the index read from the tag of every child
\* is an index of the array sized to the number of children, so that every
\* assignment is in bounds.
C21_AssignmentsInBounds ==
    WallsInitialized =>
        InitializeComponents([d \in Directions |-> << >>], 1, FALSE).inBounds

\* C22: after a wall was initialized, slot i of its array holds the child
\* whose tag is i, for every index i: no slot is null, no child is in two
\* slots, and GetSegment on a valid index returns a segment.
C22_SlotsHoldTheirSegments ==
    (pc = "ready" /\ IsGameWorld) =>
        \A d \in Directions :
            /\ \A i \in 0..(Len(m_SegmentMeshes[d]) - 1) :
                  /\ GetSegment(d, i) # NullSegment
                  /\ GetIndexOfSegment(children[d][GetSegment(d, i)]) = i
            /\ \A i, j \in 0..(Len(m_SegmentMeshes[d]) - 1) :
                  (i # j) => (GetSegment(d, i) # GetSegment(d, j))

\* ------------------------------------------------------------------ claims on Spawn

\* C16: when Spawn returns the room, every location of the list is a valid
\* location with a door; Spawn made its AddDoor calls in the order of the list,
\* and no other call was made on the room before Spawn returned.
C16_SpawnAddsListedDoors ==
    /\ spawnpc = "returned" =>
          \A i \in 1..Len(SpawnInfo.DoorLocations) :
              /\ IsValidWallLocation(SpawnInfo.DoorLocations[i])
              /\ HasDoorAtLocation(SpawnInfo.DoorLocations[i])
    /\ (spawnpc = "spawning" /\ nCalls >= 1) =>
          /\ call.op = "AddDoor"
          /\ call.loc = SpawnInfo.DoorLocations[nCalls]
          /\ pc = "ready" =>
                \A i \in 1..nCalls : HasDoorAtLocation(SpawnInfo.DoorLocations[i])
    /\ (spawnpc = "spawning" /\ nCalls = 0) => call.op \in {"none", "SpawnActor"}

\* Spawn returned a room with two listed doors on different walls and the
\* caller found the first of them.
C16_Witness ==
    /\ spawnpc = "returned"
    /\ Len(SpawnInfo.DoorLocations) = 2
    /\ SpawnInfo.DoorLocations[1].WallDirection # SpawnInfo.DoorLocations[2].WallDirection
    /\ call.op = "HasDoorAtLocation"
    /\ call.loc = SpawnInfo.DoorLocations[1]
    /\ call.result = "true"

\* ------------------------------------------------------------------ claims on a wall

\* C17: reading and setting the mesh of segment i of a wall fail with
\* OutOfRange exactly when i is no index of the wall, and then change nothing;
\* for an index of the wall the mesh is set whatever mesh the segment shows,
\* and read as it is, so that a read after a write returns the mesh written.
C17_WallRangeAndSet ==
    [][(IsCall /\ call'.op \in {"SetStaticMesh", "GetStaticMesh"}) =>
          LET d == call'.loc.WallDirection
              i == call'.loc.SegmentIndex
          IN  /\ call'.result = "OutOfRange" <=>
                    (i < 0 \/ i >= Len(m_SegmentMeshes[d]))
              /\ call'.result = "OutOfRange" =>
                    (pc' = "halted" /\ UNCHANGED <<children, m_SegmentMeshes>>)
              /\ (/\ i >= 0 /\ i < Len(m_SegmentMeshes[d])
                  /\ GetSegment(d, i) # NullSegment) =>
                    /\ UNCHANGED m_SegmentMeshes
                    /\ call'.op = "SetStaticMesh" =>
                          /\ call'.result \in Meshes
                          /\ children'[d][GetSegment(d, i)].mesh = call'.result
                    /\ call'.op = "GetStaticMesh" =>
                          /\ call'.result = children[d][GetSegment(d, i)].mesh
                          /\ UNCHANGED children
                          /\ (call.op = "SetStaticMesh" /\ call.loc = call'.loc) =>
                                call'.result = call.result]_vars

\* The mesh read from a segment is a mesh its blueprint did not give it: it
\* was set by an earlier call.
C17_Witness ==
    /\ call.op = "GetStaticMesh"
    /\ call.result = "MeshA"
    /\ m_DoorMeshes = Meshes
    /\ nCalls >= 2

\* Entry j of the door list cannot be added: it is no valid location of the
\* room or an earlier entry names the same location.
OffendingEntry(j) ==
    \/ ~IsValidWallLocation(SpawnInfo.DoorLocations[j])
    \/ \E i \in 1..(j - 1) : SpawnInfo.DoorLocations[i] = SpawnInfo.DoorLocations[j]

\* C25: Spawn does not validate the door list: an entry that is invalid or
\* names a location a second time is never added and fails with
\* InvalidLocation or DoorAlreadyPresent when its turn comes, the doors of the
\* entries before it are in the room by then, and a room with such a list is
\* never returned.
C25_SpawnFailsAtTheEntry ==
    /\ (\E j \in 1..Len(SpawnInfo.DoorLocations) : OffendingEntry(j)) =>
          spawnpc # "returned"
    /\ (spawnpc = "spawning" /\ pc = "ready" /\ nCalls >= 1) => ~OffendingEntry(nCalls)
    /\ (spawnpc = "spawning" /\ pc = "halted" /\ call.op = "AddDoor") =>
          /\ call.loc = SpawnInfo.DoorLocations[nCalls]
          /\ \A i \in 1..(nCalls - 1) : HasDoorAtLocation(SpawnInfo.DoorLocations[i])
          /\ ~IsValidWallLocation(call.loc) => call.result = "InvalidLocation"
          /\ (IsValidWallLocation(call.loc) /\ OffendingEntry(nCalls)) =>
                call.result = "DoorAlreadyPresent"

\* Spawn failed at the second entry of its list, which names the location of
\* the first, after the door of the first was added.
C25_Witness ==
    /\ spawnpc = "spawning" /\ pc = "halted"
    /\ nCalls = 2
    /\ call.op = "AddDoor" /\ call.result = "DoorAlreadyPresent"
    /\ SpawnInfo.DoorLocations[1] = SpawnInfo.DoorLocations[2]
    /\ HasDoorAtLocation(SpawnInfo.DoorLocations[1])

\* C26: after each asset added, the width map, the length map and the keys of
\* the paths map know the same themes, and no key is wider or longer than the
\* maximum recorded for its theme.
C26_MapsAgree ==
    /\ DOMAIN m_MaxWidthByTheme = DOMAIN m_MaxLengthByTheme
    /\ DOMAIN m_MaxWidthByTheme = {k.Theme : k \in DOMAIN m_PathsByRoomSpecs}
    /\ \A k \in DOMAIN m_PathsByRoomSpecs :
          /\ k.Theme \in DOMAIN m_MaxWidthByTheme
          /\ k.Theme \in DOMAIN m_MaxLengthByTheme
          /\ k.Dimensions.Width <= m_MaxWidthByTheme[k.Theme]
          /\ k.Dimensions.Length <= m_MaxLengthByTheme[k.Theme]

\* Two assets were added: a key of the paths map is narrower than the maximum
\* of its theme, set by the other asset.
C26_Witness ==
    /\ dbpc = "built" /\ nAdded = 2
    /\ \E k \in DOMAIN m_PathsByRoomSpecs :
          k.Dimensions.Width < m_MaxWidthByTheme[k.Theme]

\* The sequences with the elements of Assets in another order.
PermutationsOf(Assets) ==
    { [i \in 1..Len(Assets) |-> Assets[p[i]]] : p \in Permutations(1..Len(Assets)) }

\* The number of positions of seq that hold x.
CountIn(seq, x) == Cardinality({ i \in 1..Len(seq) : seq[i] = x })

\* C27: the built database is the one Algo::ForEach yields, and building from
\* the same assets in any other order yields the same keys (DoesAssetExistWithSpecs),
\* the same maximum width and length of every theme, and for every key the same
\* paths with the same multiplicities (GetAssetPaths).
C27_OrderOfAssetsIrrelevant ==
    (dbpc = "built" /\ query.op = "none") =>
        LET db == DatabaseOf(RoomAssets, Len(RoomAssets))
        IN  /\ m_PathsByRoomSpecs = db.paths
            /\ m_MaxWidthByTheme = db.widths
            /\ m_MaxLengthByTheme = db.lengths
            /\ \A Other \in PermutationsOf(RoomAssets) :
                  LET odb == DatabaseOf(Other, Len(Other))
                  IN  /\ DOMAIN odb.paths = DOMAIN db.paths
                      /\ odb.widths = db.widths
                      /\ odb.lengths = db.lengths
                      /\ \A k \in DOMAIN db.paths :
                            /\ k \in DOMAIN odb.paths
                            /\ Len(odb.paths[k]) = Len(db.paths[k])
                            /\ \A x \in AssetPaths :
                                  CountIn(odb.paths[k], x) = CountIn(db.paths[k], x)

\* The database was built from two assets of the same specs and different
\* paths: the other order gives the array of paths in the other order.
C27_Witness ==
    /\ dbpc = "built" /\ Len(RoomAssets) = 2
    /\ SpecsEqual(GetRoomSpecs(RoomAssets[1]), GetRoomSpecs(RoomAssets[2]))
    /\ RoomAssets[1].Path # RoomAssets[2].Path
    /\ DatabaseOf(<<RoomAssets[2], RoomAssets[1]>>, 2).paths # m_PathsByRoomSpecs

====
